---- MODULE Spec2Model ----
(***************************************************************************)
(* Spoti-Finder: the text emotion detector (TextEmotionDetector) and the   *)
(* catalog build (SpotifyClient.build_dataset), as state machines.         *)
(*                                                                         *)
(* Numbers.  Sentiment scores are reals in the code; here they are         *)
(* integers counting ten-thousandths (0.5 is 5000), and a confidence, which *)
(* the code rounds to 3 decimals, counts thousandths (1.0 is 1000).        *)
(* Text is a sequence of one-character strings.                            *)
(***************************************************************************)
EXTENDS Integers, Sequences, FiniteSets, TLC

VARIABLES
    pc,                 \* position of detect_emotion_from_text
    text,               \* its argument: [kind, chars]
    clean,              \* the local `text` after preprocess_text
    sentiment_scores,   \* analyzer.polarity_scores(text)
    textblob,           \* TextBlob(text).sentiment
    keyword_emotions,   \* _detect_emotions_by_keywords(text)
    primary_emotion,    \* _determine_primary_emotion(...)
    confidence,         \* _calculate_confidence(...)
    ret_result,         \* first component of the returned pair
    ret_error,          \* second component of the returned pair
    calls,              \* collaborators invoked by the current call, in order
    raised,             \* the exception raised inside the current call, if any
    bpc,                \* position of build_dataset
    genres,             \* its argument genres
    tracks_per_genre,   \* its argument tracks_per_genre
    gi,                 \* index of the genre being collected
    tracks,             \* what search_tracks returned for that genre
    ti,                 \* index of the track being processed
    track_info,         \* the row being assembled
    dataset,            \* the rows collected so far
    build_ret,          \* the rows of the returned DataFrame
    searches,           \* the calls of sp.search so far: [q, limit]
    usable,             \* the tracks the service delivered with features
    ipc,                \* per process: position in the web app's module start-up
    module_globals,     \* per process: spotify_client, face_detector,
                        \* text_detector, recommender of the web app module
    recommender_state,  \* per process: what the recommender has completed
    build_gi,           \* per process: genre index of a running build_dataset
    thread,             \* per request thread of the web app: its request
    uploads             \* the upload folder: file name -> content, or absent

dvars == << pc, text, clean, sentiment_scores, textblob, keyword_emotions,
            primary_emotion, confidence, ret_result, ret_error, calls,
            raised >>

bvars == << bpc, genres, tracks_per_genre, gi, tracks, ti, track_info,
            dataset, build_ret, searches, usable >>

svars == << ipc, module_globals, recommender_state, build_gi >>

wvars == << thread, uploads >>

webvars == << svars, wvars >>

vars == << dvars, bvars, webvars >>

(***************************************************************************)
(* Bounds of the model.                                                    *)
(***************************************************************************)
\* a text is the concatenation of at most MaxTokens tokens of Vocabulary
MaxTokens == 2

\* build_dataset is called with at most MaxGenres genres
MaxGenres == 2

\* and with tracks_per_genre in 1..MaxTracksPerGenre
MaxTracksPerGenre == 2

(***************************************************************************)
(* Python's None, and a value that is not None.                            *)
(***************************************************************************)
None == << >>
Some(x) == << x >>
IsNone(v) == v = << >>

(***************************************************************************)
(* The fixed tables of TextEmotionDetector.__init__.                       *)
(***************************************************************************)
\* the keys of emotion_keywords in insertion (= iteration) order
EmotionOrder ==
    << "happy", "sad", "angry", "fear", "surprise", "disgust", "love", "calm" >>

Emotions == { EmotionOrder[i] : i \in 1..Len(EmotionOrder) }

emotion_keywords ==
    [
      happy |-> <<
          <<"h","a","p","p","y">>,
          <<"j","o","y">>,
          <<"e","x","c","i","t","e","d">>,
          <<"c","h","e","e","r","f","u","l">>,
          <<"d","e","l","i","g","h","t","e","d">>,
          <<"g","l","a","d">>,
          <<"p","l","e","a","s","e","d">>,
          <<"u","p","b","e","a","t">> >>,
      sad |-> <<
          <<"s","a","d">>,
          <<"d","e","p","r","e","s","s","e","d">>,
          <<"d","o","w","n">>,
          <<"m","e","l","a","n","c","h","o","l","y">>,
          <<"g","l","o","o","m","y">>,
          <<"s","o","r","r","o","w","f","u","l">>,
          <<"b","l","u","e">>,
          <<"d","e","j","e","c","t","e","d">> >>,
      angry |-> <<
          <<"a","n","g","r","y">>,
          <<"m","a","d">>,
          <<"f","u","r","i","o","u","s">>,
          <<"i","r","r","i","t","a","t","e","d">>,
          <<"a","n","n","o","y","e","d">>,
          <<"r","a","g","e">>,
          <<"h","o","s","t","i","l","e">>,
          <<"b","i","t","t","e","r">> >>,
      fear |-> <<
          <<"a","f","r","a","i","d">>,
          <<"s","c","a","r","e","d">>,
          <<"f","e","a","r","f","u","l">>,
          <<"a","n","x","i","o","u","s">>,
          <<"w","o","r","r","i","e","d">>,
          <<"n","e","r","v","o","u","s">>,
          <<"t","e","r","r","i","f","i","e","d">>,
          <<"p","a","n","i","c">> >>,
      surprise |-> <<
          <<"s","u","r","p","r","i","s","e","d">>,
          <<"s","h","o","c","k","e","d">>,
          <<"a","m","a","z","e","d">>,
          <<"a","s","t","o","n","i","s","h","e","d">>,
          <<"s","t","u","n","n","e","d">>,
          <<"b","e","w","i","l","d","e","r","e","d">> >>,
      disgust |-> <<
          <<"d","i","s","g","u","s","t","e","d">>,
          <<"r","e","v","o","l","t","e","d">>,
          <<"r","e","p","u","l","s","e","d">>,
          <<"s","i","c","k","e","n","e","d">>,
          <<"n","a","u","s","e","a","t","e","d">> >>,
      love |-> <<
          <<"l","o","v","e">>,
          <<"r","o","m","a","n","t","i","c">>,
          <<"a","f","f","e","c","t","i","o","n">>,
          <<"a","d","o","r","e">>,
          <<"c","h","e","r","i","s","h">>,
          <<"d","e","v","o","t","e","d">> >>,
      calm |-> <<
          <<"c","a","l","m">>,
          <<"p","e","a","c","e","f","u","l">>,
          <<"r","e","l","a","x","e","d">>,
          <<"s","e","r","e","n","e">>,
          <<"t","r","a","n","q","u","i","l">>,
          <<"z","e","n">> >>
    ]

\* tempo is set in beats per minute; valence, energy and danceability in
\* ten-thousandths
emotion_mapping ==
    [ happy    |-> [valence |-> 8000, energy |-> 7000, danceability |-> 8000, tempo |-> 120],
      sad      |-> [valence |-> 2000, energy |-> 3000, danceability |-> 3000, tempo |-> 80],
      angry    |-> [valence |-> 1000, energy |-> 9000, danceability |-> 6000, tempo |-> 140],
      fear     |-> [valence |-> 2000, energy |-> 4000, danceability |-> 2000, tempo |-> 90],
      surprise |-> [valence |-> 6000, energy |-> 6000, danceability |-> 7000, tempo |-> 110],
      disgust  |-> [valence |-> 3000, energy |-> 4000, danceability |-> 3000, tempo |-> 95],
      love     |-> [valence |-> 7000, energy |-> 5000, danceability |-> 6000, tempo |-> 100],
      calm     |-> [valence |-> 5000, energy |-> 3000, danceability |-> 4000, tempo |-> 85],
      neutral  |-> [valence |-> 5000, energy |-> 5000, danceability |-> 5000, tempo |-> 110] ]

\* a lookup that always takes the default
DictGetDefault(d, key, default) == default

\* dict.get(key, default)
DictGet(d, key, default) ==
    IF key \in DOMAIN d THEN d[key] ELSE default

(***************************************************************************)
(* Characters and str methods.                                             *)
(***************************************************************************)
UpperCase ==
    << "A","B","C","D","E","F","G","H","I","J","K","L","M",
       "N","O","P","Q","R","S","T","U","V","W","X","Y","Z" >>

LowerCase ==
    << "a","b","c","d","e","f","g","h","i","j","k","l","m",
       "n","o","p","q","r","s","t","u","v","w","x","y","z" >>

Digits == { "0","1","2","3","4","5","6","7","8","9" }

\* \w of the regular expression
WordChars ==
    { UpperCase[i] : i \in 1..Len(UpperCase) } \cup
    { LowerCase[i] : i \in 1..Len(LowerCase) } \cup Digits \cup { "_" }

\* \s of the regular expression, and what str.strip() removes
WhiteSpace == { " ", "\t", "\n" }

\* the punctuation the regular expression keeps
KeptPunctuation == { ".", ",", "!", "?" }

\* str.lower() on one character
LowerChar(c) ==
    IF \E i \in 1..Len(UpperCase) : UpperCase[i] = c
    THEN LowerCase[CHOOSE i \in 1..Len(UpperCase) : UpperCase[i] = c]
    ELSE c

\* str.lower()
Lower(s) == [ i \in 1..Len(s) |-> LowerChar(s[i]) ]

\* re.sub(r'[^\w\s.,!?]', '', s)
RemoveSpecial(s) ==
    SelectSeq(s, LAMBDA c : c \in WordChars \cup WhiteSpace \cup KeptPunctuation)

RECURSIVE LStrip(_)
LStrip(s) ==
    IF s # << >> /\ Head(s) \in WhiteSpace THEN LStrip(Tail(s)) ELSE s

RECURSIVE RStrip(_)
RStrip(s) ==
    IF s # << >> /\ s[Len(s)] \in WhiteSpace
    THEN RStrip(SubSeq(s, 1, Len(s) - 1))
    ELSE s

\* str.strip()
Strip(s) == RStrip(LStrip(s))

\* str.count(sub) from position i: non-overlapping occurrences, scanning
\* left to right
RECURSIVE CountFrom(_, _, _)
CountFrom(s, sub, i) ==
    IF i + Len(sub) - 1 > Len(s) THEN 0
    ELSE IF SubSeq(s, i, i + Len(sub) - 1) = sub
         THEN 1 + CountFrom(s, sub, i + Len(sub))
         ELSE CountFrom(s, sub, i + 1)

StrCount(s, sub) == CountFrom(s, sub, 1)

(***************************************************************************)
(* TextEmotionDetector.                                                    *)
(***************************************************************************)
preprocess_text(t) == Strip(RemoveSpecial(Lower(t)))

\* the score of one emotion: the occurrences of its keywords, summed
RECURSIVE KeywordSum(_, _, _)
KeywordSum(t, keywords, k) ==
    IF k > Len(keywords) THEN 0
    ELSE StrCount(t, keywords[k]) + KeywordSum(t, keywords, k + 1)

detect_emotions_by_keywords(t) ==
    [ emotion \in Emotions |-> KeywordSum(t, emotion_keywords[emotion], 1) ]

\* max(d.values())
MaxValue(d) ==
    CHOOSE m \in { d[k] : k \in DOMAIN d } : \A k \in DOMAIN d : d[k] <= m

\* the last key, in iteration order, whose value is the maximum
MaxKeyLast(d) ==
    LET last == CHOOSE i \in 1..Len(EmotionOrder) :
                    /\ d[EmotionOrder[i]] = MaxValue(d)
                    /\ \A j \in (i + 1)..Len(EmotionOrder) :
                           d[EmotionOrder[j]] # MaxValue(d)
    IN  EmotionOrder[last]

\* max(d, key=d.get): the first key, in iteration order, whose value is the
\* maximum
MaxKey(d) ==
    LET first == CHOOSE i \in 1..Len(EmotionOrder) :
                    /\ d[EmotionOrder[i]] = MaxValue(d)
                    /\ \A j \in 1..(i - 1) : d[EmotionOrder[j]] # MaxValue(d)
    IN  EmotionOrder[first]

\* the branch with `neg >= 0.5` for `neg > 0.5`
StrongNegativeGE(scores) ==
    IF scores.neg >= 5000
    THEN (IF scores.compound <= -7000 THEN "angry" ELSE "sad")
    ELSE "sad"

\* the branch `elif compound <= -0.5`
StrongNegative(scores) ==
    IF scores.neg > 5000
    THEN (IF scores.compound <= -7000 THEN "angry" ELSE "sad")
    ELSE "sad"

\* the branch with `pos >= neu` for `pos > neu`
MildPositiveGE(scores) ==
    IF scores.pos >= scores.neu THEN "happy" ELSE "neutral"

\* the branch `elif compound > 0.1`
MildPositive(scores) ==
    IF scores.pos > scores.neu THEN "happy" ELSE "neutral"

\* a fallback whose last branch answers calm
SentimentFallbackCalm(scores) ==
    LET compound == scores.compound
    IN  IF compound >= 5000 THEN "happy"
        ELSE IF compound <= -5000 THEN StrongNegative(scores)
        ELSE IF compound > 1000 THEN MildPositive(scores)
        ELSE IF compound < -1000 THEN "sad"
        ELSE "calm"

\* "Fall back to sentiment analysis"
SentimentFallback(scores) ==
    LET compound == scores.compound
    IN  IF compound >= 5000 THEN "happy"
        ELSE IF compound <= -5000 THEN StrongNegative(scores)
        ELSE IF compound > 1000 THEN MildPositive(scores)
        ELSE IF compound < -1000 THEN "sad"
        ELSE "neutral"

\* a decision that lets a negative TextBlob polarity overrule the fallback
determine_primary_emotion_blob(scores, textblob_polarity, keywords) ==
    LET max_keyword_emotion == MaxKey(keywords)
        max_keyword_score   == keywords[max_keyword_emotion]
    IN  IF max_keyword_score > 0 THEN max_keyword_emotion
        ELSE IF textblob_polarity < 0 THEN "sad"
        ELSE SentimentFallback(scores)

determine_primary_emotion(scores, textblob_polarity, keywords) ==
    LET max_keyword_emotion == MaxKey(keywords)
        max_keyword_score   == keywords[max_keyword_emotion]
    IN  IF max_keyword_score > 0 THEN max_keyword_emotion
        ELSE SentimentFallback(scores)

Abs(x) == IF x < 0 THEN -x ELSE x

Min(a, b) == IF a <= b THEN a ELSE b

\* round(x, 3) of x ten-thousandths, in thousandths.  A value half way
\* between two thousandths goes to either neighbour: which one the build
\* produces depends on the binary representation of the float.
Round3(x) ==
    IF x % 10 = 5 THEN { x \div 10, x \div 10 + 1 }
    ELSE IF x % 10 < 5 THEN { x \div 10 }
    ELSE { x \div 10 + 1 }

\* the confidence without the cap of the keyword boost
calculate_confidence_uncapped(scores, keywords) ==
    LET base_confidence   == Abs(scores.compound)
        max_keyword_score == MaxValue(keywords)
        keyword_boost     == max_keyword_score * 1000
        conf              == Min(base_confidence + keyword_boost, 10000)
    IN  Round3(conf)

\* the values _calculate_confidence may return
calculate_confidence(scores, keywords) ==
    LET base_confidence   == Abs(scores.compound)
        max_keyword_score == MaxValue(keywords)
        keyword_boost     == Min(max_keyword_score * 1000, 3000)
        conf              == Min(base_confidence + keyword_boost, 10000)
    IN  Round3(conf)

\* the dictionary detect_emotion_from_text returns
ResultOf(emotion, conf, scores, blob, keywords) ==
    [ emotion               |-> emotion,
      confidence            |-> conf,
      sentiment_scores      |-> scores,
      textblob_polarity     |-> blob.polarity,
      textblob_subjectivity |-> blob.subjectivity,
      keyword_emotions      |-> keywords,
      music_features        |-> DictGet(emotion_mapping, emotion,
                                        emotion_mapping["neutral"]) ]

EmptyTextError == "Empty text provided"

\* f"Error analyzing text emotion: {str(e)}"
AnalysisError(e) == "Error analyzing text emotion: " \o e

(***************************************************************************)
(* Inputs: the texts detect_emotion_from_text is called with and what the  *)
(* two sentiment scorers answer.                                           *)
(***************************************************************************)
Vocabulary ==
    { <<"j","o","y">>,
      <<"g","l","a","d"," ","h","a","p","p","y"," ">>,
      <<"S","a","d">>,
      <<"z","e","n">>,
      <<" ">>,
      <<"@">>,
      <<"!">> }

RECURSIVE TextsUpTo(_)
TextsUpTo(n) ==
    IF n = 0 THEN { << >> }
    ELSE LET shorter == TextsUpTo(n - 1)
         IN  shorter \cup { s \o v : s \in shorter, v \in Vocabulary }

Texts == TextsUpTo(MaxTokens)

\* the argument: a str, None, or a truthy object that is not a str
TextArguments ==
    { [kind |-> "str", chars |-> s] : s \in Texts } \cup
    { [kind |-> "none", chars |-> << >>], [kind |-> "other", chars |-> << >>] }

\* compound scores on both sides of every threshold of the decision
Compounds ==
    { -10000, -7000, -6999, -5000, -4999, -1001, -1000,
      0, 1000, 1001, 4995, 5000, 9000 }

\* pos, neg, neu
Proportions ==
    { [pos |-> 6000, neg |-> 0,    neu |-> 4000],
      [pos |-> 2500, neg |-> 5000, neu |-> 2500],
      [pos |-> 0,    neg |-> 6000, neu |-> 4000] }

SentimentOutputs ==
    { [compound |-> c, pos |-> p.pos, neg |-> p.neg, neu |-> p.neu] :
        c \in Compounds, p \in Proportions }

TextBlobOutputs ==
    { [polarity |-> -8000, subjectivity |-> 9000],
      [polarity |-> 5000,  subjectivity |-> 1000] }

ExceptionMessages == { "", "scorer failed" }

NoScores == [compound |-> 0, pos |-> 0, neg |-> 0, neu |-> 0]
NoBlob == [polarity |-> 0, subjectivity |-> 0]
NoKeywords == [ emotion \in Emotions |-> 0 ]

(***************************************************************************)
(* detect_emotion_from_text, one action per step.                          *)
(***************************************************************************)
\* `return None, "Empty text provided"`
EmptyReturn == << None, Some(EmptyTextError) >>

\* an except clause that returns no message
ExceptReturnNothing(e) == << None, None >>

\* `except Exception as e: return None, f"..."`
ExceptReturn(e) == << None, Some(AnalysisError(e)) >>

\* `return {...}, None`
ResultReturn(result) == << Some(result), None >>

\* the test applied to the preprocessed text
IsBlankAfterPreprocessing(s) == preprocess_text(s) = << >>

\* the test without `not text.strip()`
IsBlankEmptyOnly(s) == s = << >>

\* `not text or not text.strip()` for a str
IsBlank(s) == s = << >> \/ Strip(s) = << >>

Locals == << clean, sentiment_scores, textblob, keyword_emotions,
             primary_emotion, confidence >>

\* the locals of a call that has not assigned them yet, or has returned
ClearLocals ==
    /\ clean' = << >>
    /\ sentiment_scores' = NoScores
    /\ textblob' = NoBlob
    /\ keyword_emotions' = NoKeywords
    /\ primary_emotion' = ""
    /\ confidence' = 0

Returns(pair) ==
    /\ pc' = "done"
    /\ ret_result' = pair[1]
    /\ ret_error' = pair[2]
    /\ ClearLocals

\* an exception with message e reaches the except clause
Raises(e) ==
    /\ raised' = Some(e)
    /\ Returns(ExceptReturn(e))

DetectInit ==
    /\ pc = "idle"
    /\ text = [kind |-> "none", chars |-> << >>]
    /\ clean = << >>
    /\ sentiment_scores = NoScores
    /\ textblob = NoBlob
    /\ keyword_emotions = NoKeywords
    /\ primary_emotion = ""
    /\ confidence = 0
    /\ ret_result = None
    /\ ret_error = None
    /\ calls = << >>
    /\ raised = None

Call ==
    /\ pc = "idle"
    /\ \E t \in TextArguments : text' = t
    /\ pc' = "validate"
    /\ UNCHANGED << Locals, ret_result, ret_error, calls, raised >>
    /\ UNCHANGED << bvars, webvars >>

\* the caller takes the returned pair; the detector keeps nothing of a call
Collect ==
    /\ pc = "done"
    /\ pc' = "idle"
    /\ text' = [kind |-> "none", chars |-> << >>]
    /\ ret_result' = None
    /\ ret_error' = None
    /\ calls' = << >>
    /\ raised' = None
    /\ UNCHANGED Locals
    /\ UNCHANGED << bvars, webvars >>

\* `if not text or not text.strip()`: None is falsy; an object without
\* strip() raises AttributeError inside the try
Validate ==
    /\ pc = "validate"
    /\ \/ /\ text.kind = "none"
          /\ Returns(EmptyReturn)
          /\ UNCHANGED raised
       \/ /\ text.kind = "other"
          /\ Raises("object has no attribute 'strip'")
       \/ /\ text.kind = "str"
          /\ IsBlank(text.chars)
          /\ Returns(EmptyReturn)
          /\ UNCHANGED raised
       \/ /\ text.kind = "str"
          /\ ~IsBlank(text.chars)
          /\ pc' = "preprocess"
          /\ UNCHANGED << Locals, ret_result, ret_error, raised >>
    /\ UNCHANGED << text, calls >>
    /\ UNCHANGED << bvars, webvars >>

\* `text = self.preprocess_text(text)`
Preprocess ==
    /\ pc = "preprocess"
    /\ clean' = preprocess_text(text.chars)
    /\ pc' = "vader"
    /\ UNCHANGED << text, sentiment_scores, textblob, keyword_emotions,
                    primary_emotion, confidence, ret_result, ret_error, calls,
                    raised >>
    /\ UNCHANGED << bvars, webvars >>

\* `sentiment_scores = self.analyzer.polarity_scores(text)`
Vader ==
    /\ pc = "vader"
    /\ calls' = Append(calls, "polarity_scores")
    /\ \E s \in SentimentOutputs : sentiment_scores' = s
    /\ pc' = "textblob"
    /\ UNCHANGED << text, clean, textblob, keyword_emotions, primary_emotion,
                    confidence, ret_result, ret_error, raised >>
    /\ UNCHANGED << bvars, webvars >>

VaderRaises ==
    /\ pc = "vader"
    /\ calls' = Append(calls, "polarity_scores")
    /\ \E e \in ExceptionMessages : Raises(e)
    /\ UNCHANGED text
    /\ UNCHANGED << bvars, webvars >>

\* `blob = TextBlob(text)` and its sentiment
TextBlob ==
    /\ pc = "textblob"
    /\ calls' = Append(calls, "TextBlob")
    /\ \E b \in TextBlobOutputs : textblob' = b
    /\ pc' = "keywords"
    /\ UNCHANGED << text, clean, sentiment_scores, keyword_emotions,
                    primary_emotion, confidence, ret_result, ret_error, raised >>
    /\ UNCHANGED << bvars, webvars >>

TextBlobRaises ==
    /\ pc = "textblob"
    /\ calls' = Append(calls, "TextBlob")
    /\ \E e \in ExceptionMessages : Raises(e)
    /\ UNCHANGED text
    /\ UNCHANGED << bvars, webvars >>

\* `keyword_emotions = self._detect_emotions_by_keywords(text)`
Keywords ==
    /\ pc = "keywords"
    /\ calls' = Append(calls, "keywords")
    /\ keyword_emotions' = detect_emotions_by_keywords(clean)
    /\ pc' = "determine"
    /\ UNCHANGED << text, clean, sentiment_scores, textblob, primary_emotion,
                    confidence, ret_result, ret_error, raised >>
    /\ UNCHANGED << bvars, webvars >>

\* `primary_emotion = self._determine_primary_emotion(...)`
Determine ==
    /\ pc = "determine"
    /\ primary_emotion' =
           determine_primary_emotion(sentiment_scores, textblob.polarity,
                                     keyword_emotions)
    /\ pc' = "confidence"
    /\ UNCHANGED << text, clean, sentiment_scores, textblob, keyword_emotions,
                    confidence, ret_result, ret_error, calls, raised >>
    /\ UNCHANGED << bvars, webvars >>

\* `confidence = self._calculate_confidence(...)`
Confidence ==
    /\ pc = "confidence"
    /\ confidence' \in calculate_confidence(sentiment_scores, keyword_emotions)
    /\ pc' = "return"
    /\ UNCHANGED << text, clean, sentiment_scores, textblob, keyword_emotions,
                    primary_emotion, ret_result, ret_error, calls, raised >>
    /\ UNCHANGED << bvars, webvars >>

\* `return {...}, None`
Return ==
    /\ pc = "return"
    /\ Returns(ResultReturn(ResultOf(primary_emotion, confidence,
                                     sentiment_scores, textblob,
                                     keyword_emotions)))
    /\ UNCHANGED << text, calls, raised >>
    /\ UNCHANGED << bvars, webvars >>

\* any other exception raised between `try:` and the return (MemoryError,
\* a KeyError on a scorer's answer, ...)
RaiseInside ==
    /\ pc \in { "preprocess", "keywords", "determine", "confidence", "return" }
    /\ \E e \in ExceptionMessages : Raises(e)
    /\ UNCHANGED << text, calls >>
    /\ UNCHANGED << bvars, webvars >>

(***************************************************************************)
(* SpotifyClient: what the catalog service answers, search_tracks,         *)
(* get_track_features and build_dataset.                                   *)
(***************************************************************************)
GenreNames == { "pop", "rock" }

\* the items of a search answer: a track object, one whose artists list is
\* empty, and a malformed one that lacks the key 'name'
TrackObjects ==
    { [id |-> "t1", name |-> "song", artists |-> << [name |-> "band"] >>,
       popularity |-> 50],
      [id |-> "t2", name |-> "tune", artists |-> << >>, popularity |-> 0],
      [id |-> "t2", artists |-> << >>, popularity |-> 50] }

RECURSIVE SeqsUpTo(_, _)
SeqsUpTo(S, n) ==
    IF n = 0 THEN { << >> }
    ELSE LET shorter == SeqsUpTo(S, n - 1)
         IN  shorter \cup { Append(s, x) : s \in shorter, x \in S }

\* sp.search(q, type='track', limit, offset): an answer with at most `limit`
\* items, an answer without 'tracks'/'items', or an exception (service
\* error, timeout)
SearchAnswers(limit) ==
    { [kind |-> "items", items |-> s] : s \in SeqsUpTo(TrackObjects, limit) }
    \cup { [kind |-> "malformed", items |-> << >>],
           [kind |-> "raises", items |-> << >>] }

\* the audio features of one track
AudioFeatures(id) ==
    [id |-> id, valence |-> 5000, energy |-> 5000, danceability |-> 5000,
     tempo |-> 120]

\* sp.audio_features([id]): a list with the record, a list with null, null, or
\* an exception
FeatureAnswers(id) ==
    { [kind |-> "list", list |-> << Some(AudioFeatures(id)) >>],
      [kind |-> "list", list |-> << None >>],
      [kind |-> "null", list |-> << >>],
      [kind |-> "raises", list |-> << >>] }

\* search_tracks: results['tracks']['items'], or [] on any exception
search_tracks(answer) ==
    IF answer.kind = "items" THEN answer.items ELSE << >>

\* get_track_features: [f for f in features if f is not None], or [] on any
\* exception (iterating over null raises TypeError)
get_track_features(answer) ==
    IF answer.kind = "list"
    THEN LET kept == SelectSeq(answer.list, LAMBDA f : ~IsNone(f))
         IN  [ i \in 1..Len(kept) |-> kept[i][1] ]
    ELSE << >>

\* the keys build_dataset reads from a track object
TrackKeys == { "id", "name", "artists", "popularity" }

\* a track_info that carries no genre label
TrackInfoUnlabelled(track, genre) ==
    [ id         |-> track.id,
      name       |-> track.name,
      artist     |-> IF track.artists # << >> THEN track.artists[1].name
                     ELSE "Unknown",
      popularity |-> track.popularity,
      genre      |-> "" ]

\* the dictionary track_info of build_dataset
TrackInfo(track, genre) ==
    [ id         |-> track.id,
      name       |-> track.name,
      artist     |-> IF track.artists # << >> THEN track.artists[1].name
                     ELSE "Unknown",
      popularity |-> track.popularity,
      genre      |-> genre ]

\* dict.update: the keys of `other` are set in `d`
Update(d, other) == other @@ d

\* a build that appends the row with or without features
RowsForAlways(info, features) ==
    IF features # << >> THEN << Update(info, features[1]) >> ELSE << info >>

\* `if features:` of build_dataset: the row to append, if any
RowsFor(info, features) ==
    IF features # << >> THEN << Update(info, features[1]) >> ELSE << >>

BuildInit ==
    /\ bpc = "idle"
    /\ genres = << >>
    /\ tracks_per_genre = 0
    /\ gi = 0
    /\ tracks = << >>
    /\ ti = 0
    /\ track_info = << >>
    /\ dataset = << >>
    /\ build_ret = None
    /\ searches = << >>
    /\ usable = << >>

\* build_dataset(genres, tracks_per_genre): `dataset = []`
BuildCall ==
    /\ bpc = "idle"
    /\ \E g \in SeqsUpTo(GenreNames, MaxGenres) : genres' = g
    /\ \E n \in 1..MaxTracksPerGenre : tracks_per_genre' = n
    /\ gi' = 1
    /\ dataset' = << >>
    /\ bpc' = "genre"
    /\ UNCHANGED << tracks, ti, track_info, build_ret, searches, usable >>
    /\ UNCHANGED << dvars, webvars >>

\* `tracks = self.search_tracks(f'genre:{genre}', limit=tracks_per_genre)`
Search ==
    /\ bpc = "genre"
    /\ gi <= Len(genres)
    /\ searches' = Append(searches, [q |-> << "genre:", genres[gi] >>,
                                     limit |-> tracks_per_genre])
    /\ \E answer \in SearchAnswers(tracks_per_genre) :
           tracks' = search_tracks(answer)
    /\ ti' = 1
    /\ bpc' = "track"
    /\ UNCHANGED << genres, tracks_per_genre, gi, track_info, dataset,
                    build_ret, usable >>
    /\ UNCHANGED << dvars, webvars >>

\* `track_info = {...}` for a track object that has the keys read
BuildTrackInfo ==
    /\ bpc = "track"
    /\ ti <= Len(tracks)
    /\ TrackKeys \subseteq DOMAIN tracks[ti]
    /\ track_info' = << TrackInfo(tracks[ti], genres[gi]) >>
    /\ bpc' = "features"
    /\ UNCHANGED << genres, tracks_per_genre, gi, tracks, ti, dataset,
                    build_ret, searches, usable >>
    /\ UNCHANGED << dvars, webvars >>

\* `track_info = {...}` for a track object that lacks a key: the KeyError is
\* raised outside every try and leaves build_dataset
BuildTrackInfoRaises ==
    /\ bpc = "track"
    /\ ti <= Len(tracks)
    /\ ~(TrackKeys \subseteq DOMAIN tracks[ti])
    /\ bpc' = "raised"
    /\ UNCHANGED << genres, tracks_per_genre, gi, tracks, ti, track_info,
                    dataset, build_ret, searches, usable >>
    /\ UNCHANGED << dvars, webvars >>

\* `features = self.get_track_features(track['id'])` and the `if features:`
\* that appends the row
Features ==
    /\ bpc = "features"
    /\ \E answer \in FeatureAnswers(tracks[ti].id) :
          LET features == get_track_features(answer)
          IN  /\ dataset' = dataset \o RowsFor(track_info[1], features)
              /\ usable' =
                    IF answer.kind = "list" /\ answer.list # << None >>
                    THEN Append(usable, [id |-> tracks[ti].id,
                                         genre |-> genres[gi]])
                    ELSE usable
    /\ track_info' = << >>
    /\ ti' = ti + 1
    /\ bpc' = "track"
    /\ UNCHANGED << genres, tracks_per_genre, gi, tracks, build_ret, searches >>
    /\ UNCHANGED << dvars, webvars >>

\* the end of `for track in tracks`
NextGenre ==
    /\ bpc = "track"
    /\ ti > Len(tracks)
    /\ gi' = gi + 1
    /\ tracks' = << >>
    /\ ti' = 0
    /\ bpc' = "genre"
    /\ UNCHANGED << genres, tracks_per_genre, track_info, dataset, build_ret,
                    searches, usable >>
    /\ UNCHANGED << dvars, webvars >>

\* `return pd.DataFrame(dataset)`
BuildReturn ==
    /\ bpc = "genre"
    /\ gi > Len(genres)
    /\ build_ret' = Some(dataset)
    /\ bpc' = "returned"
    /\ UNCHANGED << genres, tracks_per_genre, gi, tracks, ti, track_info,
                    dataset, searches, usable >>
    /\ UNCHANGED << dvars, webvars >>

(***************************************************************************)
(* The web application (web_app/app.py): module start-up.  Every process   *)
(* that imports the module runs the start-up once.                         *)
(***************************************************************************)
\* the processes that import the web app
Procs == { "p1", "p2" }

\* the process whose request threads are modelled
ServerProcess == "p1"

\* the module globals before the start-up has bound them, and after the
\* except clause
NoComponents ==
    [ spotify_client |-> None,
      face_detector  |-> None,
      text_detector  |-> None,
      recommender    |-> None ]

\* the order of the four constructor calls of the try block, and the class
\* each one instantiates
ComponentOrder ==
    << "spotify_client", "face_detector", "text_detector", "recommender" >>

ComponentClass ==
    [ spotify_client |-> "SpotifyClient",
      face_detector  |-> "FaceEmotionDetector",
      text_detector  |-> "TextEmotionDetector",
      recommender    |-> "EmotionBasedRecommender" ]

\* the default `genres` of build_dataset
DefaultGenres == << "pop", "rock", "jazz", "classical", "electronic" >>

\* an except clause that resets the recommender only
ExceptClauseKeeps(g) == [ g EXCEPT !.recommender = None ]

\* the except clause of the start-up: all four globals are set to None
ExceptClause(g) ==
    [ g EXCEPT !.spotify_client = None,
               !.face_detector  = None,
               !.text_detector  = None,
               !.recommender    = None ]

\* all([spotify_client, face_detector, text_detector, recommender])
AllComponents(g) ==
    \A c \in DOMAIN g : ~ IsNone(g[c])

StartUpInit ==
    /\ ipc = [ p \in Procs |-> "spotify_client" ]
    /\ module_globals = [ p \in Procs |-> NoComponents ]
    /\ recommender_state = [ p \in Procs |-> [built |-> FALSE, loaded |-> FALSE] ]
    /\ build_gi = [ p \in Procs |-> 0 ]

\* the position after the constructor call at position c
AfterConstructor(c) ==
    IF c = "recommender" THEN "build_track_database"
    ELSE ComponentOrder[1 + CHOOSE i \in 1..Len(ComponentOrder) :
                                ComponentOrder[i] = c]

\* `spotify_client = SpotifyClient()` ... `recommender =
\* EmotionBasedRecommender(spotify_client)`: one constructor call returns
Construct(p) ==
    /\ ipc[p] \in DOMAIN ComponentClass
    /\ module_globals' =
           [ module_globals EXCEPT ![p][ipc[p]] = Some(ComponentClass[ipc[p]]) ]
    /\ ipc' = [ ipc EXCEPT ![p] = AfterConstructor(ipc[p]) ]
    /\ UNCHANGED << recommender_state, build_gi >>
    /\ UNCHANGED << dvars, bvars, wvars >>

\* `recommender.build_track_database()` reaches build_dataset:
\* `dataset = []`, with the default genres
EnterBuild(p) ==
    /\ ipc[p] = "build_track_database"
    /\ ipc' = [ ipc EXCEPT ![p] = "build_dataset" ]
    /\ build_gi' = [ build_gi EXCEPT ![p] = 1 ]
    /\ UNCHANGED << module_globals, recommender_state >>
    /\ UNCHANGED << dvars, bvars, wvars >>

\* one round of `for genre in genres:` of build_dataset
CollectGenre(p) ==
    /\ ipc[p] = "build_dataset"
    /\ build_gi[p] <= Len(DefaultGenres)
    /\ build_gi' = [ build_gi EXCEPT ![p] = build_gi[p] + 1 ]
    /\ UNCHANGED << ipc, module_globals, recommender_state >>
    /\ UNCHANGED << dvars, bvars, wvars >>

\* `return pd.DataFrame(dataset)`, and build_track_database returns
LeaveBuild(p) ==
    /\ ipc[p] = "build_dataset"
    /\ build_gi[p] > Len(DefaultGenres)
    /\ build_gi' = [ build_gi EXCEPT ![p] = 0 ]
    /\ recommender_state' = [ recommender_state EXCEPT ![p].built = TRUE ]
    /\ ipc' = [ ipc EXCEPT ![p] = "load_model" ]
    /\ UNCHANGED module_globals
    /\ UNCHANGED << dvars, bvars, wvars >>

\* build_track_database finds the cached catalog and returns without a build
UseCache(p) ==
    /\ ipc[p] = "build_track_database"
    /\ recommender_state' = [ recommender_state EXCEPT ![p].built = TRUE ]
    /\ ipc' = [ ipc EXCEPT ![p] = "load_model" ]
    /\ UNCHANGED << module_globals, build_gi >>
    /\ UNCHANGED << dvars, bvars, wvars >>

\* `recommender.load_model()` returns
LoadModel(p) ==
    /\ ipc[p] = "load_model"
    /\ recommender_state' = [ recommender_state EXCEPT ![p].loaded = TRUE ]
    /\ ipc' = [ ipc EXCEPT ![p] = "initialized" ]
    /\ UNCHANGED << module_globals, build_gi >>
    /\ UNCHANGED << dvars, bvars, wvars >>

\* a statement of the try block raises: `except Exception as e:` sets the
\* globals and the module goes on
StartUpRaises(p) ==
    /\ ipc[p] \in (DOMAIN ComponentClass) \cup
                  { "build_track_database", "build_dataset", "load_model" }
    /\ module_globals' =
           [ module_globals EXCEPT ![p] = ExceptClause(module_globals[p]) ]
    /\ build_gi' = [ build_gi EXCEPT ![p] = 0 ]
    /\ ipc' = [ ipc EXCEPT ![p] = "failed" ]
    /\ UNCHANGED recommender_state
    /\ UNCHANGED << dvars, bvars, wvars >>

\* the rest of the module is executed (routes are registered) and
\* `app.run(...)` starts to serve, whatever the start-up did
Serve(p) ==
    /\ ipc[p] \in { "initialized", "failed" }
    /\ ipc' = [ ipc EXCEPT ![p] = "serving" ]
    /\ UNCHANGED << module_globals, recommender_state, build_gi >>
    /\ UNCHANGED << dvars, bvars, wvars >>

(***************************************************************************)
(* The web application: the request handlers.  Flask runs each request in  *)
(* a thread of the serving process; the threads share the module globals   *)
(* and the upload folder.                                                  *)
(***************************************************************************)
Threads == { "r1", "r2" }

\* no file of that name in the upload folder
Absent == "absent"

\* the number of recommendations the two analysis endpoints ask for
RecommendationLimit == 15

\* for sep in os.sep, os.path.altsep: filename.replace(sep, " ")
ReplaceSeparators(s) ==
    [ i \in 1..Len(s) |-> IF s[i] = "/" THEN " " ELSE s[i] ]

RECURSIVE JoinStripped(_)
JoinStripped(s) ==
    IF s = << >> THEN << >>
    ELSE IF Head(s) \in WhiteSpace THEN << "_" >> \o JoinStripped(LStrip(s))
    ELSE << Head(s) >> \o JoinStripped(Tail(s))

\* "_".join(filename.split())
JoinWords(s) == JoinStripped(Strip(s))

\* what [^A-Za-z0-9_.-] leaves in place
SafeChars == WordChars \cup { ".", "-" }

RECURSIVE LStripDots(_)
LStripDots(s) ==
    IF s # << >> /\ Head(s) \in { ".", "_" } THEN LStripDots(Tail(s)) ELSE s

RECURSIVE RStripDots(_)
RStripDots(s) ==
    IF s # << >> /\ s[Len(s)] \in { ".", "_" }
    THEN RStripDots(SubSeq(s, 1, Len(s) - 1))
    ELSE s

\* werkzeug's secure_filename
secure_filename(s) ==
    RStripDots(LStripDots(
        SelectSeq(JoinWords(ReplaceSeparators(s)), LAMBDA c : c \in SafeChars)))

\* the file names clients send with an upload
RawFilenames ==
    { << "a", ".", "j", "p", "g" >>,
      << ".", ".", "/", "a", ".", "j", "p", "g" >>,
      << "b", ".", "j", "p", "g" >>,
      << ".", "." >> }

\* the names under which uploads are stored
FileNames == { secure_filename(r) : r \in RawFilenames } \ { << >> }

\* the bodies of the requests to /api/analyze-text: no JSON body, a JSON
\* object without 'text', and a JSON object with a 'text' that is a str or
\* null
TextRequests ==
    { [json |-> FALSE, key |-> FALSE, value |-> [kind |-> "none", chars |-> << >>]],
      [json |-> TRUE,  key |-> FALSE, value |-> [kind |-> "none", chars |-> << >>]],
      [json |-> TRUE,  key |-> TRUE,  value |-> [kind |-> "none", chars |-> << >>]] }
    \cup
    { [json |-> TRUE, key |-> TRUE, value |-> [kind |-> "str", chars |-> c]] :
          c \in { << >>, << " " >>, << "j", "o", "y" >> } }

\* the requests to /api/analyze-image: a file upload, a JSON body with or
\* without 'image_data', and a request that is neither
ImageRequests ==
    { [form |-> "file", filename |-> r, image_data |-> FALSE] :
          r \in RawFilenames \cup { << >> } }
    \cup
    { [form |-> "json", filename |-> << >>, image_data |-> b] : b \in BOOLEAN }
    \cup
    { [form |-> "other", filename |-> << >>, image_data |-> FALSE] }

\* the query strings of /api/search-tracks and /api/similar-tracks/<id>
SearchRequests ==
    { [q |-> q, limit |-> l] : q \in { "", "love" }, l \in { "10", "ten" } }

\* the bodies of the requests to /api/recommend-by-features
FeatureRequests == { [json |-> b] : b \in BOOLEAN }

\* int(s) of a query parameter: the value, or nothing when it raises
\* ValueError
ParseInt(s) == IF s = "10" THEN Some(10) ELSE None

\* what the text detector hands back to the handler
TextDetectorReturns ==
    { ResultReturn([emotion |-> e, music_features |-> emotion_mapping[e]]) :
          e \in { "happy", "neutral" } }
    \cup { ExceptReturn(e) : e \in { "scorer failed" } }

\* what the face detector hands back for the image it was given
FaceDetectorReturns(content) ==
    IF content = Absent
    THEN { << None, Some("Could not load image") >> }
    ELSE { << Some([emotion |-> "happy", image |-> content,
                    music_features |-> emotion_mapping["happy"]]), None >>,
           << None, Some("No face detected in the image") >> }

\* what the recommender's methods hand back
RecommenderReturns == { << >>, << "track" >> }

\* the messages of the exceptions the recommender's methods raise
RecommenderErrors == { "Track database not built" }

\* analyze_emotion_distribution(): counts per emotion label
EmotionDistributions == { [ e \in Emotions |-> 0 ] }

\* the track objects the catalog service's search answers with: one that
\* has every key the handler reads, and one without 'album'
ServiceTracks ==
    { [id |-> "t1", name |-> "song", artists |-> << "band" >>,
       album |-> "lp", preview_url |-> "p", external_urls |-> "u"],
      [id |-> "t2", name |-> "tune", artists |-> << >>,
       preview_url |-> "p", external_urls |-> "u"] }

\* what spotify_client.search_tracks hands back (it catches its own errors)
WebSearchAnswers == { << >> } \cup { << track >> : track \in ServiceTracks }

\* the keys the formatting loop of search_tracks reads
FormatKeys ==
    { "id", "name", "artists", "album", "preview_url", "external_urls" }

\* one element of formatted_tracks
FormatTrack(track) ==
    [ id           |-> track.id,
      name         |-> track.name,
      artist       |-> IF track.artists # << >> THEN track.artists[1]
                       ELSE "Unknown",
      album        |-> track.album,
      preview_url  |-> track.preview_url,
      external_url |-> track.external_urls ]

\* jsonify(body), status
Json(body, status) == [ status |-> status, body |-> body ]

\* an except clause that answers without the 'error' key
ServerErrorBare(e) == Json([message |-> "Server error: " \o e], 500)

\* `except Exception as e: return jsonify({'error': f'Server error:
\* {str(e)}'}), 500`
ServerError(e) == Json([error |-> "Server error: " \o e], 500)

\* jsonify({'error': message}), 400
ClientError(message) == Json([error |-> message], 400)

\* a thread that handles no request
IdleThread ==
    [ hpc               |-> "idle",
      endpoint          |-> "",
      request           |-> << >>,
      filename          |-> << >>,
      emotion_result    |-> None,
      error             |-> None,
      read              |-> "",
      recommender_calls |-> << >>,
      exception         |-> None,
      response          |-> None ]

WebInit ==
    /\ thread = [ t \in Threads |-> IdleThread ]
    /\ uploads = [ f \in FileNames |-> Absent ]

\* the module globals the handlers read
Global(name) == module_globals[ServerProcess][name]

\* a request for `endpoint` arrives at thread t
Received(t, endpoint, request) ==
    [ IdleThread EXCEPT !.endpoint = endpoint, !.request = request ]

\* the handler goes on at position hpc
Goes(t, r, hpc) ==
    thread' = [ thread EXCEPT ![t] = [ r EXCEPT !.hpc = hpc ] ]

\* the handler returns a response
Responds(t, r, response) ==
    thread' = [ thread EXCEPT ![t] = [ r EXCEPT !.hpc = "responded",
                                                !.response = Some(response) ] ]

\* a statement of the handler's try block raises an exception with message e
HandlerRaises(t, r, e) ==
    thread' = [ thread EXCEPT ![t] = [ r EXCEPT !.hpc = "except",
                                                !.exception = Some(e) ] ]

\* `if error: return jsonify({'error': error}), 400`, else on to the
\* recommender
CheckError(t, r, next) ==
    IF ~ IsNone(r.error)
    THEN Responds(t, r, ClientError(r.error[1]))
    ELSE Goes(t, r, next)

\* analyze_text_emotion up to the call of the detector
AnalyzeText(t) ==
    /\ ipc[ServerProcess] = "serving"
    /\ thread[t].hpc = "idle"
    /\ \E request \in TextRequests :
         LET r == Received(t, "analyze-text", request)
             value == IF request.key THEN request.value
                      ELSE [kind |-> "str", chars |-> << >>]
         IN  IF ~ request.json
             THEN HandlerRaises(t, r, "'NoneType' object has no attribute 'get'")
             ELSE IF value.kind # "str"
             THEN HandlerRaises(t, r, "'NoneType' object has no attribute 'strip'")
             ELSE IF Strip(value.chars) = << >>
             THEN Responds(t, r, ClientError("No text provided"))
             ELSE Goes(t, r, "text_detect")
    /\ UNCHANGED uploads
    /\ UNCHANGED << dvars, bvars, svars >>

\* `emotion_result, error = text_detector.detect_emotion_from_text(text)`
\* and `if error:`
TextDetect(t) ==
    /\ thread[t].hpc = "text_detect"
    /\ IF IsNone(Global("text_detector"))
       THEN HandlerRaises(t, thread[t],
                "'NoneType' object has no attribute 'detect_emotion_from_text'")
       ELSE \E pair \in TextDetectorReturns :
                CheckError(t, [ thread[t] EXCEPT !.emotion_result = pair[1],
                                                 !.error = pair[2] ],
                           "text_recommend")
    /\ UNCHANGED uploads
    /\ UNCHANGED << dvars, bvars, svars >>

\* `recommendations = recommender.recommend_by_...(emotion_result, 15)` and
\* `return jsonify(response)`
Recommend(t, method) ==
    IF IsNone(Global("recommender"))
    THEN HandlerRaises(t, thread[t],
             "'NoneType' object has no attribute '" \o method \o "'")
    ELSE LET r == [ thread[t] EXCEPT !.recommender_calls =
                        Append(@, [method |-> method,
                                   emotion_result |-> thread[t].emotion_result[1],
                                   limit |-> RecommendationLimit]) ]
         IN  \/ \E recommendations \in RecommenderReturns :
                    Responds(t, r,
                        Json([emotion_analysis |-> r.emotion_result[1],
                              recommendations  |-> recommendations], 200))
             \/ \E e \in RecommenderErrors : HandlerRaises(t, r, e)

TextRecommend(t) ==
    /\ thread[t].hpc = "text_recommend"
    /\ Recommend(t, "recommend_by_text_emotion")
    /\ UNCHANGED uploads
    /\ UNCHANGED << dvars, bvars, svars >>

\* analyze_image_emotion up to `file.save(filepath)` or to the call of the
\* detector
AnalyzeImage(t) ==
    /\ ipc[ServerProcess] = "serving"
    /\ thread[t].hpc = "idle"
    /\ \E request \in ImageRequests :
         LET r == Received(t, "analyze-image", request)
         IN  IF request.form = "file"
             THEN IF request.filename = << >>
                  THEN Responds(t, r, ClientError("No file selected"))
                  ELSE Goes(t, [ r EXCEPT !.filename =
                                     secure_filename(request.filename) ],
                            "image_save")
             ELSE IF request.form = "json"
             THEN IF request.image_data
                  THEN Goes(t, r, "image_base64")
                  ELSE Responds(t, r, ClientError("No image data provided"))
             ELSE \* request.json of a body that is not JSON: None, or (in
                  \* later versions of the framework) an exception
                  \/ Responds(t, r, ClientError("No image data provided"))
                  \/ HandlerRaises(t, r, "415 Unsupported Media Type")
    /\ UNCHANGED uploads
    /\ UNCHANGED << dvars, bvars, svars >>

\* `file.save(filepath)`: writes the upload under its sanitized name; an
\* empty name is the upload folder itself
ImageSave(t) ==
    /\ thread[t].hpc = "image_save"
    /\ IF thread[t].filename = << >>
       THEN /\ HandlerRaises(t, thread[t], "Is a directory: 'uploads/'")
            /\ UNCHANGED uploads
       ELSE /\ uploads' = [ uploads EXCEPT ![thread[t].filename] = t ]
            /\ Goes(t, thread[t], "image_analyze")
    /\ UNCHANGED << dvars, bvars, svars >>

\* `emotion_result, error = face_detector.detect_emotion_from_image(filepath)`
ImageAnalyze(t) ==
    /\ thread[t].hpc = "image_analyze"
    /\ IF IsNone(Global("face_detector"))
       THEN HandlerRaises(t, thread[t],
                "'NoneType' object has no attribute 'detect_emotion_from_image'")
       ELSE LET content == uploads[thread[t].filename]
            IN  \E pair \in FaceDetectorReturns(content) :
                    Goes(t, [ thread[t] EXCEPT !.read = content,
                                               !.emotion_result = pair[1],
                                               !.error = pair[2] ],
                         "image_remove")
    /\ UNCHANGED uploads
    /\ UNCHANGED << dvars, bvars, svars >>

\* `try: os.remove(filepath) except: pass` and `if error:`
ImageRemove(t) ==
    /\ thread[t].hpc = "image_remove"
    /\ uploads' = [ uploads EXCEPT ![thread[t].filename] = Absent ]
    /\ CheckError(t, thread[t], "image_recommend")
    /\ UNCHANGED << dvars, bvars, svars >>

\* `emotion_result, error = face_detector.detect_emotion_from_base64(
\* image_data)` and `if error:`
ImageBase64(t) ==
    /\ thread[t].hpc = "image_base64"
    /\ IF IsNone(Global("face_detector"))
       THEN HandlerRaises(t, thread[t],
                "'NoneType' object has no attribute 'detect_emotion_from_base64'")
       ELSE \E pair \in FaceDetectorReturns(t) :
                CheckError(t, [ thread[t] EXCEPT !.emotion_result = pair[1],
                                                 !.error = pair[2] ],
                           "image_recommend")
    /\ UNCHANGED uploads
    /\ UNCHANGED << dvars, bvars, svars >>

ImageRecommend(t) ==
    /\ thread[t].hpc = "image_recommend"
    /\ Recommend(t, "recommend_by_face_emotion")
    /\ UNCHANGED uploads
    /\ UNCHANGED << dvars, bvars, svars >>

\* search_tracks of the web app
SearchTracks(t) ==
    /\ ipc[ServerProcess] = "serving"
    /\ thread[t].hpc = "idle"
    /\ \E request \in SearchRequests :
         LET r == Received(t, "search-tracks", request)
         IN  IF IsNone(ParseInt(request.limit))
             THEN HandlerRaises(t, r, "invalid literal for int()")
             ELSE IF request.q = ""
             THEN Responds(t, r, ClientError("No search query provided"))
             ELSE IF IsNone(Global("spotify_client"))
             THEN HandlerRaises(t, r,
                      "'NoneType' object has no attribute 'search_tracks'")
             ELSE \E found \in WebSearchAnswers :
                      IF \E i \in 1..Len(found) :
                             ~ (FormatKeys \subseteq DOMAIN found[i])
                      THEN HandlerRaises(t, r, "'album'")
                      ELSE Responds(t, r,
                               Json([tracks |-> [ i \in 1..Len(found) |->
                                                    FormatTrack(found[i]) ]],
                                    200))
    /\ UNCHANGED uploads
    /\ UNCHANGED << dvars, bvars, svars >>

\* get_similar_tracks of the web app
SimilarTracks(t) ==
    /\ ipc[ServerProcess] = "serving"
    /\ thread[t].hpc = "idle"
    /\ \E request \in { s \in SearchRequests : s.q = "" } :
         LET r == Received(t, "similar-tracks", request)
         IN  IF IsNone(ParseInt(request.limit))
             THEN HandlerRaises(t, r, "invalid literal for int()")
             ELSE IF IsNone(Global("recommender"))
             THEN HandlerRaises(t, r,
                      "'NoneType' object has no attribute 'get_similar_tracks'")
             ELSE \/ \E similar \in RecommenderReturns :
                        Responds(t, r, Json([tracks |-> similar], 200))
                  \/ \E e \in RecommenderErrors : HandlerRaises(t, r, e)
    /\ UNCHANGED uploads
    /\ UNCHANGED << dvars, bvars, svars >>

\* get_emotion_stats of the web app
EmotionStats(t) ==
    /\ ipc[ServerProcess] = "serving"
    /\ thread[t].hpc = "idle"
    /\ LET r == Received(t, "emotion-stats", << >>)
       IN  IF IsNone(Global("recommender"))
           THEN HandlerRaises(t, r,
                    "'NoneType' object has no attribute 'analyze_emotion_distribution'")
           ELSE \/ \E stats \in EmotionDistributions :
                      Responds(t, r, Json(stats, 200))
                \/ \E e \in RecommenderErrors : HandlerRaises(t, r, e)
    /\ UNCHANGED uploads
    /\ UNCHANGED << dvars, bvars, svars >>

\* recommend_by_features of the web app
RecommendByFeatures(t) ==
    /\ ipc[ServerProcess] = "serving"
    /\ thread[t].hpc = "idle"
    /\ \E request \in FeatureRequests :
         LET r == Received(t, "recommend-by-features", request)
         IN  IF ~ request.json
             THEN HandlerRaises(t, r, "'NoneType' object has no attribute 'get'")
             ELSE IF IsNone(Global("recommender"))
             THEN HandlerRaises(t, r,
                      "'NoneType' object has no attribute 'recommend_by_emotion'")
             ELSE \/ \E recommendations \in RecommenderReturns :
                        Responds(t, r,
                            Json([recommendations |-> recommendations], 200))
                  \/ \E e \in RecommenderErrors : HandlerRaises(t, r, e)
    /\ UNCHANGED uploads
    /\ UNCHANGED << dvars, bvars, svars >>

\* the except clause of the handler answers the exception
Except(t) ==
    /\ thread[t].hpc = "except"
    /\ Responds(t, thread[t], ServerError(thread[t].exception[1]))
    /\ UNCHANGED uploads
    /\ UNCHANGED << dvars, bvars, svars >>

\* the response is sent and the thread is free for the next request
Sent(t) ==
    /\ thread[t].hpc = "responded"
    /\ thread' = [ thread EXCEPT ![t] = IdleThread ]
    /\ UNCHANGED uploads
    /\ UNCHANGED << dvars, bvars, svars >>

Init == DetectInit /\ BuildInit /\ StartUpInit /\ WebInit

\* the start-up of two processes that import the web app
DeployNext ==
    \E p \in Procs :
        \/ Construct(p)
        \/ EnterBuild(p)
        \/ CollectGenre(p)
        \/ LeaveBuild(p)
        \/ UseCache(p)
        \/ LoadModel(p)
        \/ StartUpRaises(p)
        \/ Serve(p)

DeploySpec == Init /\ [][DeployNext]_vars

\* the serving process: its start-up, then its request threads
WebNext ==
    \/ Construct(ServerProcess)
    \/ EnterBuild(ServerProcess)
    \/ CollectGenre(ServerProcess)
    \/ LeaveBuild(ServerProcess)
    \/ UseCache(ServerProcess)
    \/ LoadModel(ServerProcess)
    \/ StartUpRaises(ServerProcess)
    \/ Serve(ServerProcess)
    \/ \E t \in Threads :
          \/ AnalyzeText(t)
          \/ TextDetect(t)
          \/ TextRecommend(t)
          \/ AnalyzeImage(t)
          \/ ImageSave(t)
          \/ ImageAnalyze(t)
          \/ ImageRemove(t)
          \/ ImageBase64(t)
          \/ ImageRecommend(t)
          \/ SearchTracks(t)
          \/ SimilarTracks(t)
          \/ EmotionStats(t)
          \/ RecommendByFeatures(t)
          \/ Except(t)
          \/ Sent(t)

WebSpec == Init /\ [][WebNext]_vars

BuildNext ==
    \/ BuildCall
    \/ Search
    \/ BuildTrackInfo
    \/ BuildTrackInfoRaises
    \/ Features
    \/ NextGenre
    \/ BuildReturn

BuildSpec == Init /\ [][BuildNext]_vars

Next ==
    \/ Call
    \/ Collect
    \/ Validate
    \/ Preprocess
    \/ Vader
    \/ VaderRaises
    \/ TextBlob
    \/ TextBlobRaises
    \/ Keywords
    \/ Determine
    \/ Confidence
    \/ Return
    \/ RaiseInside

Spec == Init /\ [][Next]_vars

(***************************************************************************)
(* Properties of detect_emotion_from_text (checked under Spec).            *)
(***************************************************************************)
\* the call has returned a result dictionary
Succeeded == pc = "done" /\ ~IsNone(ret_result)

Result == ret_result[1]

NoKeywordFound == \A e \in Emotions : Result.keyword_emotions[e] = 0

\* the position of an emotion in the lexicon order
OrderOf(e) == CHOOSE i \in 1..Len(EmotionOrder) : EmotionOrder[i] = e

\* C1: when some keyword score is positive, the returned emotion has the
\* maximal keyword score, and no emotion earlier in the lexicon order has
\* that score, whatever the sentiment scores are.
C1_KeywordMaximumWins ==
    (Succeeded /\ ~NoKeywordFound) =>
        LET k == Result.keyword_emotions
            e == Result.emotion
        IN  /\ e \in Emotions
            /\ \A other \in Emotions : k[other] <= k[e]
            /\ \A other \in Emotions :
                   OrderOf(other) < OrderOf(e) => k[other] < k[e]

\* happy and sad tie at the maximum under a strongly negative sentiment, and
\* happy, the earlier one, is returned
C1_Witness ==
    /\ Succeeded
    /\ Result.keyword_emotions["happy"] = 1
    /\ Result.keyword_emotions["sad"] = 1
    /\ Result.sentiment_scores.compound = -10000
    /\ Result.sentiment_scores.neg = 6000
    /\ Result.emotion = "happy"

\* C2: with no keyword found and compound >= -0.1 the label is happy for
\* compound >= 0.5, happy or neutral as pos > neu or not for
\* 0.1 < compound < 0.5, and neutral for -0.1 <= compound <= 0.1.
C2_PositiveFallback ==
    (Succeeded /\ NoKeywordFound /\ Result.sentiment_scores.compound >= -1000) =>
        LET c == Result.sentiment_scores.compound
            pos == Result.sentiment_scores.pos
            neu == Result.sentiment_scores.neu
        IN  /\ c >= 5000 => Result.emotion = "happy"
            /\ (1000 < c /\ c < 5000 /\ pos > neu) => Result.emotion = "happy"
            /\ (1000 < c /\ c < 5000 /\ pos <= neu) => Result.emotion = "neutral"
            /\ c <= 1000 => Result.emotion = "neutral"

\* a mildly positive compound with pos = neu gives neutral
C2_Witness ==
    /\ Succeeded
    /\ NoKeywordFound
    /\ Result.sentiment_scores.compound = 1001
    /\ Result.sentiment_scores.pos = Result.sentiment_scores.neu
    /\ Result.emotion = "neutral"

\* C3: with no keyword found and compound <= -0.5 the label is angry exactly
\* when neg > 0.5 and compound <= -0.7 and sad otherwise; for
\* -0.5 < compound < -0.1 it is sad.
C3_NegativeFallback ==
    (Succeeded /\ NoKeywordFound /\ Result.sentiment_scores.compound < -1000) =>
        LET c == Result.sentiment_scores.compound
            neg == Result.sentiment_scores.neg
        IN  IF c <= -7000 /\ neg > 5000
            THEN Result.emotion = "angry"
            ELSE Result.emotion = "sad"

\* neg is exactly 0.5 at compound -0.7, and the label is sad
C3_Witness ==
    /\ Succeeded
    /\ NoKeywordFound
    /\ Result.sentiment_scores.compound = -7000
    /\ Result.sentiment_scores.neg = 5000
    /\ Result.emotion = "sad"

\* the greatest keyword score of the result
MaxKeywordScore ==
    CHOOSE m \in { Result.keyword_emotions[e] : e \in Emotions } :
        \A e \in Emotions : Result.keyword_emotions[e] <= m

\* C4: the confidence is min(|compound| + min(0.1 * max keyword score, 0.3),
\* 1.0) rounded to 3 decimals (within half a thousandth of it), and lies in
\* [0, 1].
C4_Confidence ==
    Succeeded =>
        LET c      == Result.sentiment_scores.compound
            base   == IF c >= 0 THEN c ELSE 0 - c
            boost  == IF MaxKeywordScore >= 3 THEN 3000
                      ELSE 1000 * MaxKeywordScore
            capped == IF base + boost >= 10000 THEN 10000 ELSE base + boost
            conf   == Result.confidence
        IN  /\ conf \in 0..1000
            /\ 10 * conf - capped <= 5
            /\ capped - 10 * conf <= 5

\* four keywords for one emotion, where the boost stays at 0.3: with
\* compound 0.9 the confidence is 1.0
C4_Witness ==
    /\ Succeeded
    /\ MaxKeywordScore = 4
    /\ Result.sentiment_scores.compound = 9000
    /\ Result.confidence = 1000

\* C5: every return is a pair with exactly one of result and error null, and
\* an exception raised inside the call ends in a return of (null, message).
C5_NeverRaises ==
    /\ pc \in { "idle", "validate", "preprocess", "vader", "textblob",
                "keywords", "determine", "confidence", "return", "done" }
    /\ pc = "done" => (IsNone(ret_result) # IsNone(ret_error))
    /\ ~IsNone(raised) =>
           /\ pc = "done"
           /\ IsNone(ret_result)
           /\ ~IsNone(ret_error)

\* the secondary scorer raised after the primary one had answered
C5_Witness ==
    /\ pc = "done"
    /\ calls = << "polarity_scores", "TextBlob" >>
    /\ raised = Some("scorer failed")
    /\ IsNone(ret_result)
    /\ ret_error = Some("Error analyzing text emotion: scorer failed")

\* the argument is a str made of white space only, or the empty str
BlankArgument ==
    /\ text.kind = "str"
    /\ \A i \in 1..Len(text.chars) : text.chars[i] \in { " ", "\t", "\n" }

\* C6: a call with empty or whitespace-only text returns a null result and
\* the empty-input error, and invokes no scorer and no keyword scoring.
C6_EmptyInput ==
    (BlankArgument /\ pc \notin { "idle", "validate" }) =>
        /\ pc = "done"
        /\ IsNone(ret_result)
        /\ ret_error = Some("Empty text provided")
        /\ calls = << >>

\* the text is two blanks
C6_Witness ==
    /\ pc = "done"
    /\ text = [kind |-> "str", chars |-> << " ", " " >>]
    /\ ret_error = Some("Empty text provided")

\* the rows of the emotion -> feature table, in ten-thousandths (tempo in
\* beats per minute)
C7_Row(e) ==
    CASE e = "happy"    -> << 8000, 7000, 8000, 120 >>
      [] e = "sad"      -> << 2000, 3000, 3000, 80 >>
      [] e = "angry"    -> << 1000, 9000, 6000, 140 >>
      [] e = "fear"     -> << 2000, 4000, 2000, 90 >>
      [] e = "surprise" -> << 6000, 6000, 7000, 110 >>
      [] e = "disgust"  -> << 3000, 4000, 3000, 95 >>
      [] e = "love"     -> << 7000, 5000, 6000, 100 >>
      [] e = "calm"     -> << 5000, 3000, 4000, 85 >>
      [] e = "neutral"  -> << 5000, 5000, 5000, 110 >>

\* C7: the emotion of a result is one of the nine labels and music_features
\* is the row of the table for that emotion.
C7_FeaturesOfEmotion ==
    Succeeded =>
        LET f == Result.music_features
        IN  /\ Result.emotion \in { "happy", "sad", "angry", "fear", "surprise",
                                    "disgust", "love", "calm", "neutral" }
            /\ << f.valence, f.energy, f.danceability, f.tempo >>
                   = C7_Row(Result.emotion)

\* a result with the emotion calm carries the row of calm
C7_Witness ==
    /\ Succeeded
    /\ Result.emotion = "calm"
    /\ Result.music_features =
           [valence |-> 5000, energy |-> 3000, danceability |-> 4000,
            tempo |-> 85]

(***************************************************************************)
(* Properties of build_dataset (checked under BuildSpec).                  *)
(***************************************************************************)
\* the (id, genre) pairs of a sequence of rows
Keys(rows) == [ i \in 1..Len(rows) |-> [id |-> rows[i].id, genre |-> rows[i].genre] ]

\* C8: a failure of the catalog service while one genre is handled never
\* makes the build raise, and the returned catalog holds every track the
\* service delivered with features.
C8_FailuresOnlySkip ==
    /\ bpc # "raised"
    /\ bpc = "returned" => Keys(build_ret[1]) = usable

\* C9: a build with zero usable tracks does not return (it fails with
\* EmptyCatalog), and a build with a usable track does not fail.
C9_EmptyCatalogFails ==
    /\ bpc = "returned" => build_ret[1] # << >>
    /\ bpc = "raised" => usable = << >>

\* C10: the rows collected are, in order, the tracks the service delivered
\* with an audio-feature record, and each row carries that record.
C10_RowsHaveFeatures ==
    /\ Keys(dataset) = usable
    /\ \A i \in 1..Len(dataset) :
           /\ { "valence", "energy", "danceability", "tempo" }
                  \subseteq DOMAIN dataset[i]
           /\ dataset[i].valence = AudioFeatures(dataset[i].id).valence
           /\ dataset[i].energy = AudioFeatures(dataset[i].id).energy
           /\ dataset[i].danceability = AudioFeatures(dataset[i].id).danceability
    /\ bpc = "returned" => build_ret = Some(dataset)

\* the first genre's search gave two tracks and both have been processed:
\* the first had no features and was dropped, the second is the only row
C10_Witness ==
    /\ bpc = "track"
    /\ gi = 1
    /\ Len(tracks) = 2
    /\ ti > Len(tracks)
    /\ tracks[1].id = "t1"
    /\ Len(dataset) = 1
    /\ dataset[1].id = "t2"
    /\ dataset[1].valence = 5000

\* C11: the returned catalog holds no two rows with the same id.
C11_NoDuplicateIds ==
    bpc = "returned" =>
        \A i, j \in 1..Len(build_ret[1]) :
            build_ret[1][i].id = build_ret[1][j].id => i = j

\* the searches made for the genres already collected
SearchesDone == IF bpc \in { "genre", "returned" } THEN gi - 1 ELSE gi

\* C15, in every state: one search has been made per genre collected, in the
\* order of `genres`, each with the limit tracks_per_genre; a returned build
\* has searched every genre.
C15_OneSearchPerGenre ==
    /\ bpc # "idle" =>
           /\ Len(searches) = SearchesDone
           /\ \A i \in 1..Len(searches) :
                  searches[i] = [q |-> << "genre:", genres[i] >>,
                                 limit |-> tracks_per_genre]
    /\ bpc = "returned" => Len(searches) = Len(genres)

\* C15, in every step: the genre index never goes back and, within a genre,
\* neither does the track index; the catalog changes only by a row appended
\* for the current track of the current genre, labelled with that genre, and
\* the track is among the first tracks_per_genre of its search.
C15_RowsInOrder ==
    /\ bpc # "idle" => (gi' >= gi /\ (gi' = gi /\ bpc' # "track" => ti' >= ti))
    /\ dataset' # dataset =>
           /\ bpc = "features" /\ bpc' = "track"
           /\ Len(dataset') = Len(dataset) + 1
           /\ SubSeq(dataset', 1, Len(dataset)) = dataset
           /\ dataset'[Len(dataset')].id = tracks[ti].id
           /\ dataset'[Len(dataset')].genre = genres[gi]
           /\ ti <= tracks_per_genre
           /\ ti' = ti + 1 /\ gi' = gi

\* C15: a build searches the genres in order, once each, with the limit
\* tracks_per_genre, and lists the rows in genre order and, within a genre,
\* in search-result order, at most tracks_per_genre per genre, each row
\* labelled with its genre.
C15_GenreOrder == [] C15_OneSearchPerGenre /\ [][C15_RowsInOrder]_vars

\* rock before pop: two rows of rock in search order, then one of pop
C15_Witness ==
    /\ bpc = "returned"
    /\ genres = << "rock", "pop" >>
    /\ Len(searches) = 2
    /\ Keys(build_ret[1]) = << [id |-> "t2", genre |-> "rock"],
                               [id |-> "t1", genre |-> "rock"],
                               [id |-> "t1", genre |-> "pop"] >>

(***************************************************************************)
(* Further properties of detect_emotion_from_text (checked under Spec).    *)
(***************************************************************************)
\* the dictionary the call would have returned had TextBlob answered b, all
\* else equal
ResultWith(b) ==
    ResultOf(determine_primary_emotion(Result.sentiment_scores, b.polarity,
                                       Result.keyword_emotions),
             Result.confidence, Result.sentiment_scores, b,
             Result.keyword_emotions)

\* C14: with the same primary sentiment scores and the same keyword scores,
\* every answer of the secondary scorer gives the emotion and the target
\* features of this call, and the confidence is one that the primary scores
\* and the keyword scores alone allow.
C14_SecondaryScorerIgnored ==
    Succeeded =>
        /\ \A b \in TextBlobOutputs :
               /\ ResultWith(b).emotion = Result.emotion
               /\ ResultWith(b).music_features = Result.music_features
        /\ Result.confidence \in
               calculate_confidence(Result.sentiment_scores,
                                    Result.keyword_emotions)

\* TextBlob answered a negative polarity, no keyword was found, and the
\* label is the happy of compound 0.9
C14_Witness ==
    /\ Succeeded
    /\ NoKeywordFound
    /\ Result.textblob_polarity = -8000
    /\ Result.sentiment_scores.compound = 9000
    /\ Result.emotion = "happy"

\* C16: without a keyword the label is happy, sad, angry or neutral; fear,
\* surprise, disgust, love and calm come with a positive keyword score of
\* their own, and neutral only with every keyword score 0.
C16_FallbackLabels ==
    Succeeded =>
        /\ NoKeywordFound =>
               Result.emotion \in { "happy", "sad", "angry", "neutral" }
        /\ Result.emotion \in { "fear", "surprise", "disgust", "love", "calm" } =>
               Result.keyword_emotions[Result.emotion] > 0
        /\ Result.emotion = "neutral" => NoKeywordFound

\* calm is returned, with a keyword of calm and none of any other emotion
C16_Witness ==
    /\ Succeeded
    /\ Result.emotion = "calm"
    /\ Result.keyword_emotions["calm"] = 1
    /\ \A e \in Emotions \ { "calm" } : Result.keyword_emotions[e] = 0

\* the argument is a str of one or more characters, all of which
\* preprocessing removes (none is a word character, white space or . , ! ?)
OnlyRemovedCharacters ==
    /\ text.kind = "str"
    /\ text.chars # << >>
    /\ \A i \in 1..Len(text.chars) : text.chars[i] = "@"

\* C17: for a str argument the empty-input error is returned exactly when
\* the raw text is empty or white space only; a text of removed characters
\* only passes validation, is analysed as the empty string and, unless a
\* step raises, gives a result with every keyword score 0.
C17_ValidationBeforePreprocessing ==
    /\ (pc = "done" /\ text.kind = "str") =>
           (ret_error = Some("Empty text provided") <=> BlankArgument)
    /\ OnlyRemovedCharacters =>
           /\ pc \in { "vader", "textblob", "keywords" } => clean = << >>
           /\ (pc = "done" /\ IsNone(raised)) => (Succeeded /\ NoKeywordFound)

\* the text "@@" has been analysed and a result returned
C17_Witness ==
    /\ Succeeded
    /\ text = [kind |-> "str", chars |-> << "@", "@" >>]
    /\ calls = << "polarity_scores", "TextBlob", "keywords" >>
    /\ NoKeywordFound

(***************************************************************************)
(* Properties of the web application's start-up (checked under DeploySpec  *)
(* and WebSpec).                                                           *)
(***************************************************************************)
\* process p is inside build_dataset
InBuildSection(p) == ipc[p] = "build_dataset"

\* C12: at most one catalog build runs at a time: two processes that import
\* the web app are never both inside the build section.
C12_OneBuildAtATime ==
    \A p, q \in Procs : InBuildSection(p) /\ InBuildSection(q) => p = q

\* the module of process p has been executed to its end
StartedUp(p) == ipc[p] = "serving"

\* the recommender of process p has completed build_track_database and
\* then load_model
RecommenderReady(p) ==
    recommender_state[p].built /\ recommender_state[p].loaded

\* C20: component initialisation is all-or-nothing: after the start-up
\* either the four components are all set and the recommender has completed
\* build_track_database followed by load_model, or all four are None; the
\* model is never loaded before the database is built; and a handler runs
\* only after the start-up, never with a recommender that is not ready.
C20_AllOrNothing ==
    /\ \A p \in Procs :
          /\ StartedUp(p) =>
                \/ AllComponents(module_globals[p]) /\ RecommenderReady(p)
                \/ module_globals[p] = NoComponents
          /\ recommender_state[p].loaded => recommender_state[p].built
    /\ \A t \in Threads :
          thread[t].hpc # "idle" =>
              /\ StartedUp(ServerProcess)
              /\ ~ IsNone(Global("recommender")) =>
                     RecommenderReady(ServerProcess)

\* a handler runs after a start-up that failed in load_model, with the
\* database built: all four components are None
C20_Witness ==
    /\ StartedUp(ServerProcess)
    /\ recommender_state[ServerProcess].built
    /\ ~ recommender_state[ServerProcess].loaded
    /\ module_globals[ServerProcess] = NoComponents
    /\ \E t \in Threads : thread[t].hpc = "text_detect"

(***************************************************************************)
(* Properties of the request handlers (checked under WebSpec).             *)
(***************************************************************************)
\* the handler of thread t has returned its response
Answered(t) == thread[t].hpc = "responded"

Response(t) == thread[t].response[1]

\* a JSON object that carries an 'error' message and nothing else
IsError(response) ==
    /\ DOMAIN response.body = { "error" }
    /\ response.status \in { 400, 500 }

\* the keys of the success payload of an endpoint
PayloadKeys(endpoint) ==
    CASE endpoint \in { "analyze-text", "analyze-image" } ->
             { "emotion_analysis", "recommendations" }
      [] endpoint \in { "search-tracks", "similar-tracks" } -> { "tracks" }
      [] endpoint = "recommend-by-features" -> { "recommendations" }
      [] endpoint = "emotion-stats" -> Emotions

\* the complete success payload of the endpoint, without an 'error'
IsSuccess(endpoint, response) ==
    /\ DOMAIN response.body = PayloadKeys(endpoint)
    /\ response.status = 200

\* C13: every response of an API handler is either a success payload or a
\* JSON object with an 'error' message, never a mix; an exception raised in
\* a handler is on its way to the except clause or has been answered with
\* an error, also when the components are None.
C13_ResultOrError ==
    \A t \in Threads :
        /\ Answered(t) =>
              /\ ~ IsNone(thread[t].response)
              /\ IsError(Response(t)) \/ IsSuccess(thread[t].endpoint, Response(t))
              /\ ~ (IsError(Response(t)) /\ IsSuccess(thread[t].endpoint, Response(t)))
        /\ ~ IsNone(thread[t].exception) =>
              /\ thread[t].hpc \in { "except", "responded" }
              /\ Answered(t) => IsError(Response(t)) /\ Response(t).status = 500

\* after a failed start-up, with all components None, a request for the
\* emotion statistics raised an exception and was answered 500
C13_Witness ==
    /\ module_globals[ServerProcess] = NoComponents
    /\ \E t \in Threads :
          /\ Answered(t)
          /\ thread[t].endpoint = "emotion-stats"
          /\ ~ IsNone(thread[t].exception)
          /\ Response(t).status = 500

\* the request of thread t has no input: no body, no 'text', a blank
\* 'text'; no file name, no 'image_data', neither a file nor a JSON body
InputMissing(t) ==
    LET request == thread[t].request
    IN  IF thread[t].endpoint = "analyze-text"
        THEN \/ ~ request.json
             \/ ~ request.key
             \/ request.value.kind = "str" /\ Strip(request.value.chars) = << >>
        ELSE \/ request.form = "file" /\ request.filename = << >>
             \/ request.form = "json" /\ ~ request.image_data
             \/ request.form = "other"

\* C18: in the text and image endpoints the recommender is called only
\* after the analysis of that request succeeded: a request without input or
\* with a detector error is answered 400 without a call of the recommender,
\* and a 200 response carries the emotion analysis and the recommendations
\* computed from it.
C18_RecommendAfterAnalysis ==
    \A t \in Threads :
        thread[t].endpoint \in { "analyze-text", "analyze-image" } =>
            /\ thread[t].recommender_calls # << >> =>
                  /\ ~ IsNone(thread[t].emotion_result)
                  /\ IsNone(thread[t].error)
            /\ Answered(t) /\ (InputMissing(t) \/ ~ IsNone(thread[t].error)) =>
                  /\ Response(t).status = 400
                  /\ thread[t].recommender_calls = << >>
            /\ Answered(t) /\ Response(t).status = 200 =>
                  /\ IsSuccess(thread[t].endpoint, Response(t))
                  /\ Len(thread[t].recommender_calls) = 1
                  /\ thread[t].recommender_calls[1].emotion_result =
                         Response(t).body.emotion_analysis

\* thread t handles a file upload
IsUpload(t) ==
    /\ thread[t].endpoint = "analyze-image"
    /\ thread[t].request.form = "file"

\* C19: each file-upload request analyses the file it saved: from its save
\* to its analysis the file under its name holds its own upload, and the
\* analysis has read its own upload.
C19_OwnUploadAnalysed ==
    \A t \in Threads :
        IsUpload(t) =>
            /\ thread[t].hpc = "image_analyze" => uploads[thread[t].filename] = t
            /\ thread[t].hpc = "image_remove" => thread[t].read = t

====
